---- MODULE Spec2Model ----
(***************************************************************************)
(* Model of streamlit_app.py: the document ingestion script.  Each run of  *)
(* the script (one Streamlit rerun of a session) hashes every uploaded     *)
(* file, skips the ones recorded in the file_metadata collection, loads    *)
(* the others through a temporary file, records them in file_metadata,     *)
(* and finally chunks all loaded documents and writes them to the target   *)
(* collection.  The database (file_metadata and the target collections of  *)
(* one namespace) and the temp directory persist across runs; everything   *)
(* else is rebuilt by each run.                                            *)
(***************************************************************************)
EXTENDS Integers, Sequences, FiniteSets, Bags, TLC

\* ---------------------------------------------------------------- bounds
MaxRuns == 2

\* ------------------------------------------------------ program constants
chunk_size == 2500
chunk_overlap == 250

\* ------------------------------------------------------------ input sets
Sessions == {1, 2}
Collections == {"rag_default", "rag_other"}
None == "None"

\* Uploaded files: declared name, declared MIME type, raw bytes.
Files ==
  { [name |-> "a.txt",  type |-> "text/plain",       content |-> "alpha"],
    [name |-> "b.md",   type |-> "text/markdown",    content |-> "alpha"],
    [name |-> "a.txt",  type |-> "application/zip",  content |-> "alpha"],
    [name |-> "c.zip",  type |-> "application/zip",  content |-> "zipped"],
    [name |-> "d.pdf",  type |-> "application/pdf",  content |-> "broken"],
    [name |-> "e.json", type |-> "application/json", content |-> "beta"],
    [name |-> "f.pdf",  type |-> "application/pdf",  content |-> "pages"] }

Batches == {<<>>} \cup {<<f>> : f \in Files} \cup {<<f, g>> : f, g \in Files}

\* -------------------------------------------------------- pure functions
\* hashlib.sha256(file_content).hexdigest(): a digest determined by the
\* bytes alone, distinct for the distinct byte strings of the model.
sha256(content) ==
  CASE content = "alpha"  -> "9f2a"
    [] content = "beta"   -> "41c7"
    [] content = "zipped" -> "d05e"
    [] content = "broken" -> "7b13"
    [] content = "pages"  -> "e88c"

\* Variant of the dispatch whose else branch falls back to the generic loader.
LoaderFor_Fallback(type) ==
  IF type = "application/pdf" THEN "PyPDFLoader"
  ELSE IF type \in {"text/plain", "text/markdown"} THEN "TextLoader"
  ELSE "UnstructuredFileLoader"

\* The loader the dispatch on file.type constructs, or None (unsupported).
LoaderFor(type) ==
  IF type = "application/pdf" THEN "PyPDFLoader"
  ELSE IF type \in {"text/plain", "text/markdown"} THEN "TextLoader"
  ELSE IF type = "application/json" THEN "UnstructuredFileLoader"
  ELSE None

\* loader.load() raises on malformed content.
LoadRaises(file) == file.content = "broken"

\* loader.load(): the extracted segments, given by their text lengths
\* (PyPDFLoader: one per page; the other loaders: one for the file).
Segments(file) ==
  CASE file.content = "alpha"  -> <<100>>
    [] file.content = "beta"   -> <<2500>>
    [] file.content = "zipped" -> <<40>>
    [] file.content = "broken" -> <<>>
    [] file.content = "pages"  -> <<100, 3000>>

\* Variant of the metadata update that records the loader in place of the
\* declared type.
LoadedDocs_LoaderAsType(file, path) ==
  [p \in 1..Len(Segments(file)) |->
     [source |-> path, filename |-> file.name,
      file_type |-> LoaderFor(file.type),
      file_hash |-> sha256(file.content), page |-> p,
      length |-> Segments(file)[p]]]

\* docs = loader.load() followed by doc.metadata.update({...}): the loader
\* puts the path it read (the temporary file) in metadata["source"], the
\* update adds filename, file_type and file_hash of the uploaded file.
LoadedDocs(file, path) ==
  [p \in 1..Len(Segments(file)) |->
     [source |-> path, filename |-> file.name, file_type |-> file.type,
      file_hash |-> sha256(file.content), page |-> p,
      length |-> Segments(file)[p]]]

\* Number of windows the splitter cuts a separator-free text of length L in.
RECURSIVE NumWindows(_)
NumWindows(L) ==
  IF L <= chunk_size THEN 1
  ELSE 1 + NumWindows(L - (chunk_size - chunk_overlap))

\* The chunks of one document: windows [lo, hi) of its text, each carrying
\* a copy of the document's metadata.
SplitDoc(doc) ==
  IF doc.length = 0 THEN <<>>
  ELSE [k \in 1..NumWindows(doc.length) |->
          [source |-> doc.source, filename |-> doc.filename,
           file_type |-> doc.file_type,
           file_hash |-> doc.file_hash, page |-> doc.page,
           lo |-> (k - 1) * (chunk_size - chunk_overlap),
           hi |-> IF (k - 1) * (chunk_size - chunk_overlap) + chunk_size < doc.length
                  THEN (k - 1) * (chunk_size - chunk_overlap) + chunk_size
                  ELSE doc.length]]

\* text_splitter.split_documents(documents): every document is split on
\* its own, in order.
RECURSIVE split_documents(_)
split_documents(docs) ==
  IF docs = <<>> THEN <<>>
  ELSE SplitDoc(Head(docs)) \o split_documents(Tail(docs))

Range(seq) == {seq[i] : i \in 1..Len(seq)}

SeqToBag(seq) ==
  [x \in Range(seq) |-> Cardinality({i \in 1..Len(seq) : seq[i] = x})]

\* ----------------------------------------------------------------- state
VARIABLES
  file_metadata,    \* bag of records of the file_metadata collection
  store,            \* target collection name -> bag of stored chunks
  tmpfiles,         \* temporary files existing on disk
  pc,               \* per session: position of the script
  runs,             \* per session: number of runs started
  uploaded_files,   \* per session: the batch of the run
  collection_name,  \* per session: the selected target collection
  idx,              \* per session: position of the for loop in the batch
  documents,        \* per session: documents loaded so far
  chunks,           \* per session: result of split_documents
  tmp_file_path,    \* per session: the current temporary file, or None
  after,            \* per session: how the try block is left (finally)
  msgs,             \* per session: messages rendered by the run
  fstate,           \* per session: per-file pipeline state of the batch
  meta0,            \* per session: file_metadata when the run started
  store0,           \* per session: store when the run started
  rerun             \* per session: the run repeats the batch the previous
                    \* run of the session stored completely

vars == <<file_metadata, store, tmpfiles, pc, runs, uploaded_files,
          collection_name, idx, documents, chunks, tmp_file_path, after,
          msgs, fstate, meta0, store0, rerun>>

db == <<file_metadata, store>>
hist == <<meta0, store0, rerun>>

Ended == {"done", "stopped", "crashed"}

Init ==
  /\ file_metadata = EmptyBag
  /\ store = [c \in Collections |-> EmptyBag]
  /\ tmpfiles = {}
  /\ pc = [s \in Sessions |-> "idle"]
  /\ runs = [s \in Sessions |-> 0]
  /\ uploaded_files = [s \in Sessions |-> <<>>]
  /\ collection_name = [s \in Sessions |-> "rag_default"]
  /\ idx = [s \in Sessions |-> 1]
  /\ documents = [s \in Sessions |-> <<>>]
  /\ chunks = [s \in Sessions |-> <<>>]
  /\ tmp_file_path = [s \in Sessions |-> None]
  /\ after = [s \in Sessions |-> None]
  /\ msgs = [s \in Sessions |-> <<>>]
  /\ fstate = [s \in Sessions |-> <<>>]
  /\ meta0 = [s \in Sessions |-> EmptyBag]
  /\ store0 = [s \in Sessions |-> [c \in Collections |-> EmptyBag]]
  /\ rerun = [s \in Sessions |-> FALSE]

\* The file the for loop of session s is at.
file(s) == uploaded_files[s][idx[s]]
file_hash(s) == sha256(file(s).content)

Emit(s, kind, name) == msgs' = [msgs EXCEPT ![s] = Append(@, [kind |-> kind, file |-> name])]
SetF(s, st) == fstate' = [fstate EXCEPT ![s][idx[s]] = st]

\* The run of session s that just ended stored its whole batch: it ended
\* with the success message and every file stored or skipped as duplicate.
StoredAll(s) ==
  /\ pc[s] = "done"
  /\ \E m \in 1..Len(msgs[s]) : msgs[s][m].kind = "success_stored"
  /\ \A k \in 1..Len(fstate[s]) : fstate[s][k] \in {"stored", "duplicate-skip"}

\* --------------------------------------------------------------- actions
\* A rerun of the script: widgets hold a batch and a collection name.
StartRun(s) ==
  /\ pc[s] \in {"idle"} \cup Ended
  /\ runs[s] < MaxRuns
  /\ \E b \in Batches \ {<<>>}, c \in Collections :
        /\ uploaded_files' = [uploaded_files EXCEPT ![s] = b]
        /\ rerun' = [rerun EXCEPT ![s] = (b = uploaded_files[s] /\ StoredAll(s))]
        /\ collection_name' = [collection_name EXCEPT ![s] = c]
        /\ fstate' = [fstate EXCEPT ![s] = [i \in 1..Len(b) |-> "received"]]
  /\ runs' = [runs EXCEPT ![s] = @ + 1]
  /\ documents' = [documents EXCEPT ![s] = <<>>]
  /\ chunks' = [chunks EXCEPT ![s] = <<>>]
  /\ idx' = [idx EXCEPT ![s] = 1]
  /\ msgs' = [msgs EXCEPT ![s] = <<>>]
  /\ after' = [after EXCEPT ![s] = None]
  /\ meta0' = [meta0 EXCEPT ![s] = file_metadata]
  /\ store0' = [store0 EXCEPT ![s] = store]
  /\ pc' = [pc EXCEPT ![s] = "for"]
  /\ UNCHANGED <<db, tmpfiles, tmp_file_path>>

\* A rerun with nothing uploaded: `if uploaded_files:` is false.
RunEmpty(s) ==
  /\ pc[s] \in {"idle"} \cup Ended
  /\ runs[s] < MaxRuns
  /\ uploaded_files' = [uploaded_files EXCEPT ![s] = <<>>]
  /\ fstate' = [fstate EXCEPT ![s] = <<>>]
  /\ runs' = [runs EXCEPT ![s] = @ + 1]
  /\ documents' = [documents EXCEPT ![s] = <<>>]
  /\ chunks' = [chunks EXCEPT ![s] = <<>>]
  /\ idx' = [idx EXCEPT ![s] = 1]
  /\ msgs' = [msgs EXCEPT ![s] = <<[kind |-> "info_upload", file |-> None]>>]
  /\ rerun' = [rerun EXCEPT ![s] = FALSE]
  /\ after' = [after EXCEPT ![s] = None]
  /\ meta0' = [meta0 EXCEPT ![s] = file_metadata]
  /\ store0' = [store0 EXCEPT ![s] = store]
  /\ pc' = [pc EXCEPT ![s] = "done"]
  /\ UNCHANGED <<db, tmpfiles, tmp_file_path, collection_name>>

\* file_content = file.getvalue(); file_hash = sha256(...)
HashFile(s) ==
  /\ pc[s] = "for"
  /\ idx[s] <= Len(uploaded_files[s])
  /\ SetF(s, "hashed")
  /\ pc' = [pc EXCEPT ![s] = "find"]
  /\ UNCHANGED <<db, tmpfiles, runs, uploaded_files, collection_name, idx,
                 documents, chunks, tmp_file_path, after, msgs, hist>>

\* Variant of the duplicate check that also filters on the target collection.
existing_files_PerCollection(s) ==
  {r \in BagToSet(file_metadata) :
     /\ r.filename = file(s).name
     /\ r.file_hash = file_hash(s)
     /\ r.collection_name = collection_name[s]}

\* Variant of the duplicate check whose query never matches a record.
existing_files_NoMatch(s) == {}

\* Variant of the duplicate check that only sees the records present when
\* the run started.
existing_files_AtRunStart(s) ==
  {r \in BagToSet(meta0[s]) :
     r.filename = file(s).name /\ r.file_hash = file_hash(s)}

\* metadata_store._collection.find({"filename": ..., "file_hash": ...})
existing_files(s) ==
  {r \in BagToSet(file_metadata) :
     r.filename = file(s).name /\ r.file_hash = file_hash(s)}

\* Variant of the duplicate branch that warns but lacks the continue.
DuplicateCheck_NoContinue(s) ==
  /\ pc[s] = "find"
  /\ IF existing_files(s) # {}
     THEN /\ Emit(s, "warning_duplicate", file(s).name)
          /\ SetF(s, "duplicate-skip")
     ELSE /\ SetF(s, "type-check")
          /\ UNCHANGED msgs
  /\ pc' = [pc EXCEPT ![s] = "tmp"]
  /\ UNCHANGED <<db, tmpfiles, runs, uploaded_files, collection_name, idx,
                 documents, chunks, tmp_file_path, after, hist>>

DuplicateCheck(s) ==
  /\ pc[s] = "find"
  /\ IF existing_files(s) # {}
     THEN /\ Emit(s, "warning_duplicate", file(s).name)
          /\ SetF(s, "duplicate-skip")
          /\ idx' = [idx EXCEPT ![s] = @ + 1]
          /\ pc' = [pc EXCEPT ![s] = "for"]
     ELSE /\ SetF(s, "type-check")
          /\ pc' = [pc EXCEPT ![s] = "tmp"]
          /\ UNCHANGED <<msgs, idx>>
  /\ UNCHANGED <<db, tmpfiles, runs, uploaded_files, collection_name,
                 documents, chunks, tmp_file_path, after, hist>>

\* with tempfile.NamedTemporaryFile(delete=False, ...) as tmp_file: write
SaveTemp(s) ==
  /\ pc[s] = "tmp"
  /\ LET path == <<s, idx[s]>> IN
       /\ tmpfiles' = tmpfiles \cup {path}
       /\ tmp_file_path' = [tmp_file_path EXCEPT ![s] = path]
  /\ pc' = [pc EXCEPT ![s] = "dispatch"]
  /\ UNCHANGED <<db, runs, uploaded_files, collection_name, idx, documents,
                 chunks, after, msgs, fstate, hist>>

\* try: if file.type == ... elif ... else: st.warning(...); continue
Dispatch(s) ==
  /\ pc[s] = "dispatch"
  /\ IF LoaderFor(file(s).type) # None
     THEN /\ SetF(s, "loaded")
          /\ pc' = [pc EXCEPT ![s] = "load"]
          /\ UNCHANGED <<msgs, after>>
     ELSE /\ Emit(s, "warning_unsupported", file(s).name)
          /\ SetF(s, "unsupported")
          /\ after' = [after EXCEPT ![s] = "continue"]
          /\ pc' = [pc EXCEPT ![s] = "finally"]
  /\ UNCHANGED <<db, tmpfiles, runs, uploaded_files, collection_name, idx,
                 documents, chunks, tmp_file_path, hist>>

\* docs = loader.load(); metadata update; documents.extend(docs).
\* An exception of the loader has no handler: it leaves through finally.
Load(s) ==
  /\ pc[s] = "load"
  /\ IF LoadRaises(file(s))
     THEN /\ SetF(s, "load-error")
          /\ after' = [after EXCEPT ![s] = "raise"]
          /\ pc' = [pc EXCEPT ![s] = "finally"]
          /\ UNCHANGED documents
     ELSE /\ documents' = [documents EXCEPT ![s] = @ \o LoadedDocs(file(s), tmp_file_path[s])]
          /\ pc' = [pc EXCEPT ![s] = "insert"]
          /\ UNCHANGED <<fstate, after>>
  /\ UNCHANGED <<db, tmpfiles, runs, uploaded_files, collection_name, idx,
                 chunks, tmp_file_path, msgs, hist>>

\* Variant of the record that stores the name in place of the digest.
MetadataRecord_NameAsHash(s) ==
  [filename |-> file(s).name, file_hash |-> file(s).name,
   collection_name |-> collection_name[s]]

\* The record insert_one writes for the current file.
MetadataRecord(s) ==
  [filename |-> file(s).name, file_hash |-> file_hash(s),
   collection_name |-> collection_name[s]]

\* metadata_store._collection.insert_one({...})
InsertMetadata(s) ==
  /\ pc[s] = "insert"
  /\ file_metadata' = file_metadata (+) SetToBag({MetadataRecord(s)})
  /\ after' = [after EXCEPT ![s] = "next"]
  /\ pc' = [pc EXCEPT ![s] = "finally"]
  /\ UNCHANGED <<store, tmpfiles, runs, uploaded_files, collection_name, idx,
                 documents, chunks, tmp_file_path, msgs, fstate, hist>>

\* insert_one raises (database unreachable): no handler, leaves through finally.
InsertMetadataFails(s) ==
  /\ pc[s] = "insert"
  /\ after' = [after EXCEPT ![s] = "raise"]
  /\ pc' = [pc EXCEPT ![s] = "finally"]
  /\ UNCHANGED <<db, tmpfiles, runs, uploaded_files, collection_name, idx,
                 documents, chunks, tmp_file_path, msgs, fstate, hist>>

\* Variant of the cleanup that is skipped when the try block raised.
Unlink_NotOnRaise(s) ==
  /\ pc[s] = "finally"
  /\ IF after[s] = "raise"
     THEN /\ pc' = [pc EXCEPT ![s] = "crashed"]
          /\ UNCHANGED <<idx, tmpfiles, tmp_file_path>>
     ELSE /\ tmpfiles' = tmpfiles \ {tmp_file_path[s]}
          /\ tmp_file_path' = [tmp_file_path EXCEPT ![s] = None]
          /\ pc' = [pc EXCEPT ![s] = "for"]
          /\ idx' = [idx EXCEPT ![s] = @ + 1]
  /\ after' = [after EXCEPT ![s] = None]
  /\ UNCHANGED <<db, runs, uploaded_files, collection_name, documents,
                 chunks, msgs, fstate, hist>>

\* finally: os.unlink(tmp_file_path); then the loop goes on, or the
\* exception propagates out of the script.
Unlink(s) ==
  /\ pc[s] = "finally"
  /\ tmpfiles' = tmpfiles \ {tmp_file_path[s]}
  /\ tmp_file_path' = [tmp_file_path EXCEPT ![s] = None]
  /\ IF after[s] = "raise"
     THEN /\ pc' = [pc EXCEPT ![s] = "crashed"]
          /\ UNCHANGED idx
     ELSE /\ pc' = [pc EXCEPT ![s] = "for"]
          /\ idx' = [idx EXCEPT ![s] = @ + 1]
  /\ after' = [after EXCEPT ![s] = None]
  /\ UNCHANGED <<db, runs, uploaded_files, collection_name, documents,
                 chunks, msgs, fstate, hist>>

\* The per-file states of the files whose documents go on in the pipeline.
Advance(s, from, to) ==
  fstate' = [fstate EXCEPT ![s] =
               [i \in 1..Len(@) |-> IF @[i] = from THEN to ELSE @[i]]]

\* if documents: ... else: st.warning("No new documents were processed")
NoDocuments(s) ==
  /\ pc[s] = "for"
  /\ idx[s] > Len(uploaded_files[s])
  /\ documents[s] = <<>>
  /\ Emit(s, "warning_no_new_documents", None)
  /\ pc' = [pc EXCEPT ![s] = "done"]
  /\ UNCHANGED <<db, tmpfiles, runs, uploaded_files, collection_name, idx,
                 documents, chunks, tmp_file_path, after, fstate, hist>>

\* chunks = text_splitter.split_documents(documents)
SplitDocuments(s) ==
  /\ pc[s] = "for"
  /\ idx[s] > Len(uploaded_files[s])
  /\ documents[s] # <<>>
  /\ chunks' = [chunks EXCEPT ![s] = split_documents(documents[s])]
  /\ Advance(s, "loaded", "chunked")
  /\ pc' = [pc EXCEPT ![s] = "embed"]
  /\ UNCHANGED <<db, tmpfiles, runs, uploaded_files, collection_name, idx,
                 documents, tmp_file_path, after, msgs, hist>>

\* embeddings = HuggingFaceEmbeddings(model_name=...)
InitEmbeddings(s) ==
  /\ pc[s] = "embed"
  /\ Advance(s, "chunked", "embedded")
  /\ pc' = [pc EXCEPT ![s] = "vectorstore"]
  /\ UNCHANGED <<db, tmpfiles, runs, uploaded_files, collection_name, idx,
                 documents, chunks, tmp_file_path, after, msgs, hist>>

\* Variant of the embedder failure handler without st.stop().
InitEmbeddingsFails_NoStop(s) ==
  /\ pc[s] = "embed"
  /\ Emit(s, "error_embeddings", None)
  /\ Advance(s, "chunked", "embedded")
  /\ pc' = [pc EXCEPT ![s] = "vectorstore"]
  /\ UNCHANGED <<db, tmpfiles, runs, uploaded_files, collection_name, idx,
                 documents, chunks, tmp_file_path, after, hist>>

\* except: st.error("Failed to initialize HuggingFaceEmbeddings"); st.stop()
InitEmbeddingsFails(s) ==
  /\ pc[s] = "embed"
  /\ Emit(s, "error_embeddings", None)
  /\ pc' = [pc EXCEPT ![s] = "stopped"]
  /\ UNCHANGED <<db, tmpfiles, runs, uploaded_files, collection_name, idx,
                 documents, chunks, tmp_file_path, after, fstate, hist>>

\* vectorstore = AstraDBVectorStore(collection_name=collection_name, ...)
InitVectorStore(s) ==
  /\ pc[s] = "vectorstore"
  /\ pc' = [pc EXCEPT ![s] = "add"]
  /\ UNCHANGED <<db, tmpfiles, runs, uploaded_files, collection_name, idx,
                 documents, chunks, tmp_file_path, after, msgs, fstate, hist>>

\* except: st.error("Failed to initialize AstraDBVectorStore"); st.stop()
InitVectorStoreFails(s) ==
  /\ pc[s] = "vectorstore"
  /\ Emit(s, "error_vectorstore", None)
  /\ pc' = [pc EXCEPT ![s] = "stopped"]
  /\ UNCHANGED <<db, tmpfiles, runs, uploaded_files, collection_name, idx,
                 documents, chunks, tmp_file_path, after, fstate, hist>>

\* vectorstore.add_documents(chunks); st.success(...)
AddDocuments(s) ==
  /\ pc[s] = "add"
  /\ store' = [store EXCEPT ![collection_name[s]] = @ (+) SeqToBag(chunks[s])]
  /\ Emit(s, "success_stored", None)
  /\ Advance(s, "embedded", "stored")
  /\ pc' = [pc EXCEPT ![s] = "done"]
  /\ UNCHANGED <<file_metadata, tmpfiles, runs, uploaded_files,
                 collection_name, idx, documents, chunks, tmp_file_path,
                 after, hist>>

\* add_documents raises after writing some of the chunks (the writes are
\* not transactional); except: st.error("Failed to store documents ...")
AddDocumentsFails(s) ==
  /\ pc[s] = "add"
  /\ \E k \in 0..(Len(chunks[s]) - 1) :
        store' = [store EXCEPT ![collection_name[s]] =
                    @ (+) SeqToBag(SubSeq(chunks[s], 1, k))]
  /\ Emit(s, "error_store", None)
  /\ Advance(s, "embedded", "store-error")
  /\ pc' = [pc EXCEPT ![s] = "done"]
  /\ UNCHANGED <<file_metadata, tmpfiles, runs, uploaded_files,
                 collection_name, idx, documents, chunks, tmp_file_path,
                 after, hist>>

Step(s) ==
  \/ StartRun(s)
  \/ RunEmpty(s)
  \/ HashFile(s)
  \/ DuplicateCheck(s)
  \/ SaveTemp(s)
  \/ Dispatch(s)
  \/ Load(s)
  \/ InsertMetadata(s)
  \/ InsertMetadataFails(s)
  \/ Unlink(s)
  \/ NoDocuments(s)
  \/ SplitDocuments(s)
  \/ InitEmbeddings(s)
  \/ InitEmbeddingsFails(s)
  \/ InitVectorStore(s)
  \/ InitVectorStoreFails(s)
  \/ AddDocuments(s)
  \/ AddDocumentsFails(s)

\* One session: the runs of the script follow one another.
Next == Step(1)

Spec == Init /\ [][Next]_vars

\* ------------------------------------------------------ shared vocabulary
Batch(s) == uploaded_files[s]
Pos(s) == 1..Len(uploaded_files[s])
HasMsg(s, kind) == \E m \in 1..Len(msgs[s]) : msgs[s][m].kind = kind
HasMsgFor(s, kind, name) ==
  \E m \in 1..Len(msgs[s]) : msgs[s][m].kind = kind /\ msgs[s][m].file = name
\* The declared types the claims name as supported.
SupportedTypes ==
  {"application/pdf", "text/plain", "text/markdown", "application/json"}
Supported(f) == f.type \in SupportedTypes
SameFile(f, g) == f.name = g.name /\ f.content = g.content
Terminal == {"duplicate-skip", "unsupported", "load-error", "store-error", "stored"}
\* The temporary file the run of session s reads the k-th file from.
PathOf(s, k) == <<s, k>>
\* The chunks the run of session s cuts from the k-th file of its batch.
ChunksOf(s, k) == Range(split_documents(LoadedDocs(Batch(s)[k], PathOf(s, k))))
\* Records of file_metadata bag m for the name and bytes of file f.
RecordsOf(m, f) ==
  {r \in BagToSet(m) : r.filename = f.name /\ r.file_hash = sha256(f.content)}
\* Copies of chunk ch the run of session s has added to collection c.
NewCopies(s, c, ch) == CopiesIn(ch, store[c]) - CopiesIn(ch, store0[s][c])

\* ------------------------------------------------------------------ C1
\* C1: a (filename, file_hash) record exists in file_metadata only if the
\* chunks of that file have been written to the record's target collection.
C1_RecordOnlyAfterStore ==
  \A r \in BagToSet(file_metadata) :
     \E ch \in BagToSet(store[r.collection_name]) :
        ch.filename = r.filename /\ ch.file_hash = r.file_hash

\* ------------------------------------------------------------------ C2
\* C2: a file whose bytes are already stored in the target collection (by an
\* earlier upload under the same or another filename) is skipped as
\* duplicate once the duplicate check has decided on it.
C2_ByteIdenticalDetected ==
  \A s \in Sessions : \A k \in Pos(s) :
     ( /\ fstate[s][k] \notin {"received", "hashed"}
       /\ \E ch \in BagToSet(store0[s][collection_name[s]]) :
             ch.file_hash = sha256(Batch(s)[k].content) )
     => fstate[s][k] = "duplicate-skip"

\* ------------------------------------------------------------------ C3
\* C3: when the loader raised on a file, the run still ends with every file
\* of the batch processed and no loaded file left unchunked.
C3_BadFileDoesNotAbort ==
  \A s \in Sessions :
     ( /\ pc[s] \in Ended
       /\ \E k \in Pos(s) : fstate[s][k] = "load-error" )
     => \A k \in Pos(s) :
           fstate[s][k] \notin {"received", "hashed", "type-check", "loaded"}

\* ------------------------------------------------------------------ C4
\* C4: once the embedder failed to initialise, the error is the last thing
\* the run reports, the run has halted, and the target collections hold
\* exactly what they held when the run started.
C4_EmbedderFailureNoWrite ==
  \A s \in Sessions :
     HasMsg(s, "error_embeddings")
     => /\ pc[s] = "stopped"
        /\ msgs[s][Len(msgs[s])].kind = "error_embeddings"
        /\ ~HasMsg(s, "success_stored")
        /\ store = store0[s]

C4_Witness ==
  /\ HasMsg(1, "error_embeddings")
  /\ Len(Batch(1)) = 2
  /\ \A k \in Pos(1) : fstate[1][k] = "chunked"

\* ------------------------------------------------------------------ C5
\* C5: a file is skipped as duplicate only if file_metadata records it for
\* the currently selected target collection.
C5_DuplicateOnlyForTargetCollection ==
  \A s \in Sessions : \A k \in Pos(s) :
     fstate[s][k] = "duplicate-skip"
     => \E r \in RecordsOf(file_metadata, Batch(s)[k]) :
           r.collection_name = collection_name[s]

\* ------------------------------------------------------------------ C6
\* C6: when the loop of a run has completed and a file of a supported type
\* that was not recorded before occurs twice in the batch, the second
\* occurrence was reported as duplicate and skipped, and no chunk of the
\* file is written more than once; when add_documents did not fail, the
\* first occurrence is stored and each of its chunks is written to the
\* target collection exactly once.
FirstOccurrence(s, i) == \A h \in 1..(i - 1) : ~SameFile(Batch(s)[h], Batch(s)[i])

TmpOf(s) == {t \in tmpfiles : t[1] = s}

C8_TempFileReleased ==
  /\ Cardinality(tmpfiles) <= 1
  /\ \A s \in Sessions :
        /\ pc[s] \notin {"dispatch", "load", "insert", "finally"} => TmpOf(s) = {}
        /\ pc[s] \in {"dispatch", "load", "insert", "finally"}
           => TmpOf(s) = {tmp_file_path[s]}

C8_Witness ==
  /\ pc[1] = "crashed"
  /\ \E k \in Pos(1) : fstate[1][k] = "load-error"
  /\ tmpfiles = {}

\* ------------------------------------------------------------------ C9
\* C9: a run over a non-empty batch that ends with no file stored has
\* emitted the "No new documents were processed" summary.
C9_ZeroStoredEmitsSummary ==
  \A s \in Sessions :
     ( /\ pc[s] \in Ended
       /\ Batch(s) # <<>>
       /\ \A k \in Pos(s) : fstate[s][k] # "stored" )
     => HasMsg(s, "warning_no_new_documents")

\* ----------------------------------------------------------------- C10
\* C10: every step moves each file of the batch along the edges of the
\* per-file state machine, and when the run ends every file of the batch is
\* in a terminal state.
Edges ==
  { <<"received", "hashed">>, <<"hashed", "duplicate-skip">>,
    <<"hashed", "type-check">>, <<"type-check", "unsupported">>,
    <<"type-check", "loaded">>, <<"loaded", "load-error">>,
    <<"loaded", "chunked">>, <<"chunked", "embedded">>,
    <<"embedded", "store-error">>, <<"embedded", "stored">> }

C10_Step ==
  \A s \in Sessions :
     /\ runs'[s] = runs[s]
        => \A k \in Pos(s) :
              \/ fstate'[s][k] = fstate[s][k]
              \/ <<fstate[s][k], fstate'[s][k]>> \in Edges
     /\ pc'[s] \in Ended
        => \A k \in 1..Len(uploaded_files'[s]) : fstate'[s][k] \in Terminal

C10_FileStateMachine == [][C10_Step]_vars

\* ----------------------------------------------------------------- C11
\* C11: every document, chunk and record written by a run carries the
\* filename, the declared type and the fingerprint of the file of the batch
\* it was read from (the file whose temporary copy is its source).
FromFile(s, d) ==
  \E k \in Pos(s) :
     /\ d.source = PathOf(s, k)
     /\ d.filename = Batch(s)[k].name
     /\ d.file_type = Batch(s)[k].type
     /\ d.file_hash = sha256(Batch(s)[k].content)

C11_MetadataOfOwnFile ==
  \A s \in Sessions :
     /\ \A d \in Range(documents[s]) : FromFile(s, d)
     /\ \A ch \in Range(chunks[s]) : FromFile(s, ch)
     /\ \A c \in Collections : \A ch \in BagToSet(store[c]) :
           (pc[s] # "idle" /\ NewCopies(s, c, ch) > 0) => FromFile(s, ch)

C11_Witness ==
  /\ pc[1] = "done"
  /\ fstate[1] = <<"stored", "stored">>
  /\ Batch(1)[1].name # Batch(1)[2].name
  /\ Batch(1)[1].type # Batch(1)[2].type
  /\ \A k \in Pos(1) : \E ch \in BagToSet(store[collection_name[1]]) :
        ch.source = PathOf(1, k) /\ NewCopies(1, collection_name[1], ch) = 1

\* ----------------------------------------------------------------- C12
\* C12: once the documents of a run are split, the number of chunks cut
\* from a file whose segments have total length L is ceil((L - 250) / 2250)
\* when L > 2500 and 1 when L <= 2500.
RECURSIVE Sum(_)
Sum(seq) == IF seq = <<>> THEN 0 ELSE Head(seq) + Sum(Tail(seq))

ExpectedChunks(L) ==
  IF L > 2500 THEN ((L - 250) + 2249) \div 2250 ELSE 1

ChunkIndexes(s, k) == {i \in 1..Len(chunks[s]) : chunks[s][i].source = PathOf(s, k)}

Split(s) == pc[s] \in {"embed", "vectorstore", "add", "stopped", "done"} /\ chunks[s] # <<>>

C12_ChunkCountOfDocument ==
  \A s \in Sessions : \A k \in Pos(s) :
     ( /\ Split(s)
       /\ fstate[s][k] \in {"chunked", "embedded", "stored", "store-error"} )
     => Cardinality(ChunkIndexes(s, k)) = ExpectedChunks(Sum(Segments(Batch(s)[k])))

\* ----------------------------------------------------------------- C13
\* C13: no chunk is longer than 2500 characters, and of two consecutive
\* chunks of the same file the second starts with the last 250 characters
\* of the first (the same 250 positions of the same segment's text).
C13_ChunkOverlap ==
  \A s \in Sessions :
     /\ \A i \in 1..Len(chunks[s]) : chunks[s][i].hi - chunks[s][i].lo <= 2500
     /\ \A i \in 1..(Len(chunks[s]) - 1) :
           chunks[s][i].source = chunks[s][i + 1].source
           => /\ chunks[s][i].page = chunks[s][i + 1].page
              /\ chunks[s][i].hi - chunks[s][i].lo >= 250
              /\ chunks[s][i + 1].hi - chunks[s][i + 1].lo >= 250
              /\ chunks[s][i + 1].lo = chunks[s][i].hi - 250

\* ------------------------------------------------ two concurrent sessions
\* The files two sessions upload at the same time into one namespace.
SharedFiles == {f \in Files : f.name \in {"a.txt", "e.json"} /\ f.type # "application/zip"}
SharedBatches == {<<f>> : f \in SharedFiles}
\* The collection both sessions have selected.
SharedCollections == {"rag_default"}

\* A rerun of the script in one of several sessions that share the database.
StartRunShared(s) ==
  /\ pc[s] \in {"idle"} \cup Ended
  /\ runs[s] < MaxRuns
  /\ \E b \in SharedBatches, c \in SharedCollections :
        /\ uploaded_files' = [uploaded_files EXCEPT ![s] = b]
        /\ rerun' = [rerun EXCEPT ![s] = (b = uploaded_files[s] /\ StoredAll(s))]
        /\ collection_name' = [collection_name EXCEPT ![s] = c]
        /\ fstate' = [fstate EXCEPT ![s] = [i \in 1..Len(b) |-> "received"]]
  /\ runs' = [runs EXCEPT ![s] = @ + 1]
  /\ documents' = [documents EXCEPT ![s] = <<>>]
  /\ chunks' = [chunks EXCEPT ![s] = <<>>]
  /\ idx' = [idx EXCEPT ![s] = 1]
  /\ msgs' = [msgs EXCEPT ![s] = <<>>]
  /\ after' = [after EXCEPT ![s] = None]
  /\ meta0' = [meta0 EXCEPT ![s] = file_metadata]
  /\ store0' = [store0 EXCEPT ![s] = store]
  /\ pc' = [pc EXCEPT ![s] = "for"]
  /\ UNCHANGED <<db, tmpfiles, tmp_file_path>>

StepShared(s) ==
  \/ StartRunShared(s)
  \/ HashFile(s)
  \/ DuplicateCheck(s)
  \/ SaveTemp(s)
  \/ Dispatch(s)
  \/ Load(s)
  \/ InsertMetadata(s)
  \/ InsertMetadataFails(s)
  \/ Unlink(s)
  \/ NoDocuments(s)
  \/ SplitDocuments(s)
  \/ InitEmbeddings(s)
  \/ InitEmbeddingsFails(s)
  \/ InitVectorStore(s)
  \/ InitVectorStoreFails(s)
  \/ AddDocuments(s)
  \/ AddDocumentsFails(s)

\* The sessions run independently; their database calls interleave.
NextShared == \E s \in Sessions : StepShared(s)

SpecShared == Init /\ [][NextShared]_vars

\* ----------------------------------------------------------------- C14
\* C14: with sessions sharing the database and nothing locking it, a file
\* can be recorded and stored once per session, and never more: for every
\* name and bytes file_metadata holds at most as many records, and a target
\* collection at most as many copies of a chunk, as there are sessions.
\* The witness is the race itself: both sessions passed the duplicate check
\* before either recorded the file, which is then recorded and stored twice.
RECURSIVE BagSum(_, _)
BagSum(B, S) ==
  IF S = {} THEN 0
  ELSE LET x == CHOOSE y \in S : TRUE IN CopiesIn(x, B) + BagSum(B, S \ {x})

\* Number of file_metadata records for the name and bytes of f.
RecordCount(m, f) == BagSum(m, RecordsOf(m, f))

\* Number of stored copies, from any upload, of the first chunk of f.
FirstChunkCount(c, f) ==
  BagSum(store[c], {ch \in BagToSet(store[c]) :
                      /\ ch.filename = f.name
                      /\ ch.file_hash = sha256(f.content)
                      /\ ch.page = 1 /\ ch.lo = 0})

C14_AtMostOncePerSession ==
  \A f \in Files :
     /\ RecordCount(file_metadata, f) <= Cardinality(Sessions)
     /\ \A c \in Collections : FirstChunkCount(c, f) <= Cardinality(Sessions)

C14_Witness ==
  /\ Batch(1) = Batch(2)
  /\ Len(Batch(1)) = 1
  /\ pc[1] = "done" /\ pc[2] = "done"
  /\ fstate[1] = <<"stored">> /\ fstate[2] = <<"stored">>
  /\ ~HasMsg(1, "warning_duplicate") /\ ~HasMsg(2, "warning_duplicate")
  /\ runs[1] = 1 /\ runs[2] = 1
  /\ RecordCount(file_metadata, Batch(1)[1]) = 2
  /\ FirstChunkCount(collection_name[1], Batch(1)[1]) = 2

\* ----------------------------------------------------------------- C15
\* C15: in a run that repeats the batch the previous run stored completely,
\* every file the loop is past was skipped as duplicate, no document is
\* loaded, file_metadata and the target collections stay what they were
\* when the run started, add_documents is never reached, and the run ends
\* with the "No new documents were processed" warning.
C15_RerunIsIdempotent ==
  \A s \in Sessions :
     rerun[s]
     => /\ \A k \in Pos(s) : k < idx[s] => fstate[s][k] = "duplicate-skip"
        /\ documents[s] = <<>>
        /\ file_metadata = meta0[s]
        /\ store = store0[s]
        /\ pc[s] \in {"for", "find", "done"}
        /\ pc[s] = "done"
           => /\ Len(msgs[s]) = Len(Batch(s)) + 1
              /\ msgs[s][Len(msgs[s])].kind = "warning_no_new_documents"
              /\ \A k \in Pos(s) : msgs[s][k].kind = "warning_duplicate"

C15_Witness ==
  /\ rerun[1]
  /\ pc[1] = "done"
  /\ Len(Batch(1)) = 2
  /\ Batch(1)[1] # Batch(1)[2]
  /\ fstate[1] = <<"duplicate-skip", "duplicate-skip">>
  /\ HasMsg(1, "warning_no_new_documents")

\* ----------------------------------------------------------------- C16
\* C16: a file is skipped as duplicate on account of a record left by an
\* earlier run only if chunks of it are stored: no failed run leaves a file
\* recorded in file_metadata without its chunks in some target collection.
C16_SkippedOnlyIfStored ==
  \A s \in Sessions : \A k \in Pos(s) :
     ( /\ fstate[s][k] = "duplicate-skip"
       /\ RecordsOf(meta0[s], Batch(s)[k]) # {} )
     => \E c \in Collections : \E ch \in BagToSet(store[c]) :
           /\ ch.filename = Batch(s)[k].name
           /\ ch.file_hash = sha256(Batch(s)[k].content)

\* ----------------------------------------------------------------- C17
\* C17: with a single session, file_metadata never holds two records with
\* the same filename and file_hash, whatever batches the runs processed.
C17_OneRecordPerFile ==
  \A f \in Files : RecordCount(file_metadata, f) <= 1

C17_Witness ==
  /\ runs[1] = 2
  /\ pc[1] = "done"
  /\ Len(Batch(1)) = 2
  /\ Batch(1)[1] = Batch(1)[2]
  /\ fstate[1] = <<"duplicate-skip", "duplicate-skip">>
  /\ RecordCount(file_metadata, Batch(1)[1]) = 1
  /\ \A r \in RecordsOf(file_metadata, Batch(1)[1]) :
        r.collection_name # collection_name[1]

\* ----------------------------------------------------------------- C18
\* C18: the step that skips a file as duplicate changes neither the
\* temporary files, the documents, file_metadata nor the target collections
\* and goes straight on to the next file; afterwards no temporary file,
\* document, chunk or stored chunk of the run comes from the skipped file,
\* file_metadata gains records for its name and bytes only from other
\* occurrences that were not skipped, and a run that skipped every file
\* leaves file_metadata and the target collections as they were.
Skipped(s, k) == fstate[s][k] = "duplicate-skip"

C18_SkipStep ==
  \A s \in Sessions :
     ( /\ runs'[s] = runs[s]
       /\ \E k \in Pos(s) : fstate[s][k] # "duplicate-skip"
                            /\ fstate'[s][k] = "duplicate-skip" )
     => /\ UNCHANGED <<tmpfiles, tmp_file_path, documents, chunks,
                       file_metadata, store>>
        /\ pc'[s] = "for"
        /\ idx'[s] = idx[s] + 1

C18_AfterSkip ==
  \A s \in Sessions :
     /\ \A k \in Pos(s) :
           Skipped(s, k)
           => /\ PathOf(s, k) \notin tmpfiles
              /\ \A d \in Range(documents[s]) : d.source # PathOf(s, k)
              /\ \A ch \in Range(chunks[s]) : ch.source # PathOf(s, k)
              /\ \A c \in Collections : \A ch \in BagToSet(store[c]) :
                    NewCopies(s, c, ch) > 0 => ch.source # PathOf(s, k)
              /\ RecordCount(file_metadata, Batch(s)[k])
                    - RecordCount(meta0[s], Batch(s)[k])
                 <= Cardinality({h \in Pos(s) :
                       /\ SameFile(Batch(s)[h], Batch(s)[k])
                       /\ fstate[s][h] \notin {"received", "hashed", "duplicate-skip"}})
     /\ (Batch(s) # <<>> /\ \A k \in Pos(s) : Skipped(s, k))
        => file_metadata = meta0[s] /\ store = store0[s]

C18_DuplicateSkipHasNoEffect == [][C18_SkipStep /\ C18_AfterSkip']_vars

C18_Witness ==
  /\ pc[1] = "done"
  /\ fstate[1] = <<"duplicate-skip", "stored">>
  /\ RecordsOf(meta0[1], Batch(1)[1]) # {}
  /\ file_metadata # meta0[1]
  /\ \E ch \in BagToSet(store[collection_name[1]]) :
        ch.source = PathOf(1, 2) /\ NewCopies(1, collection_name[1], ch) = 1
====
